---- MODULE Spec2Model ----
(***************************************************************************)
(* Model of train/classes/cls_nnetwork.py: one NeuralManager instance, its *)
(* attributes, and one action per method.  The numerical library (scaler,  *)
(* model compile/fit) and the plotting surface are collaborators: their    *)
(* calls are recorded in `effects`, their results are drawn from small     *)
(* sets.  A Python exception leaving a method is the outcome               *)
(* [kind |-> "raise", ...] of that call; the attributes keep whatever the  *)
(* method had assigned before the fault.                                   *)
(***************************************************************************)
EXTENDS Integers, Sequences, FiniteSets, TLC

VARIABLES
    constructed,          \* FALSE until NeuralManager(dir_path) has run
    dir,                  \* the directory's *.csv files: path -> row count
    X_train, X_test, y_train, y_test,
    X_train_normalized, X_test_normalized,
    X_train_unrolled, X_test_unrolled,
    y_train_unrolled, y_test_unrolled,
    model, scaler,
    train_test_init,      \* self._train_test_init
    call,                 \* the last call: method and the arguments it was given
    ret,                  \* how the last call ended: return value or exception
    effects,              \* the collaborator calls the last call made, in order
    dictionar             \* a dict a caller hands to _helpers_set_dict_default

attrs == <<X_train, X_test, y_train, y_test, X_train_normalized,
           X_test_normalized, X_train_unrolled, X_test_unrolled,
           y_train_unrolled, y_test_unrolled, model, scaler, train_test_init>>

vars == <<constructed, dir, attrs, call, ret, effects, dictionar>>

----------------------------------------------------------------------------
(* Bounds *)

MaxRows == 5        \* rows of the longer tables of the directory
MaxSeqLen == 3      \* sequence_len given to split_X_to_sequencees: 1..MaxSeqLen
MaxLen == 5         \* rows of the arrays given to _unroll_array_to_sequence

----------------------------------------------------------------------------
(* Python values *)

None == [t |-> "None"]
Unset == [t |-> "unset"]                  \* an attribute never assigned
Bool(b) == [t |-> "bool", v |-> b]
DataFrame(rows) == [t |-> "DataFrame", rows |-> rows]
Array(rows) == [t |-> "ndarray", rows |-> rows]
PyInt(n) == [t |-> "int", v |-> n]
Str(s) == [t |-> "str", v |-> s]
List(s) == [t |-> "list", v |-> s]
Dict(f) == [t |-> "dict", d |-> f]

Return(v) == [kind |-> "return", val |-> v]
Raise(e, line) == [kind |-> "raise", exc |-> e, line |-> line]

Min(a, b) == IF a < b THEN a ELSE b

\* s[lo:hi] for 0 <= lo, 0 <= hi: the rows lo .. hi-1 (0-based), clipped to s
Slice(s, lo, hi) ==
    LET l == Min(lo, Len(s))
        h == Min(hi, Len(s))
    IN  IF h <= l THEN <<>> ELSE SubSeq(s, l + 1, h)

----------------------------------------------------------------------------
(* Dataset loader *)

Chars(str) ==
    CASE str = "X_train" -> <<"X", "_", "t", "r", "a", "i", "n">>
      [] str = "X_test"  -> <<"X", "_", "t", "e", "s", "t">>
      [] str = "y_train" -> <<"y", "_", "t", "r", "a", "i", "n">>
      [] str = "y_test"  -> <<"y", "_", "t", "e", "s", "t">>
      [] str = "notes"   -> <<"n", "o", "t", "e", "s">>
      [] str = ".csv"    -> <<".", "c", "s", "v">>
      [] str = "data"    -> <<"d", "a", "t", "a">>

\* the names the directory may hold, without the extension
Stems == {"X_train", "X_test", "y_train", "y_test", "notes"}
Canonical == {"X_train", "X_test", "y_train", "y_test"}

dir_path == Chars("data")

\* os.path.join(dir_path, name): the path glob reports for a file
PathOf(stem) == dir_path \o <<"/">> \o Chars(stem) \o Chars(".csv")

\* str.split(sep): the pieces between the separators
RECURSIVE SplitFrom(_, _, _)
SplitFrom(s, sep, cur) ==
    IF s = <<>> THEN <<cur>>
    ELSE IF Head(s) = sep THEN <<cur>> \o SplitFrom(Tail(s), sep, <<>>)
    ELSE SplitFrom(Tail(s), sep, Append(cur, Head(s)))

Split(s, sep) == SplitFrom(s, sep, <<>>)

\* file_path.split('/')[-1].split('.')[0]
FileName(file_path) ==
    LET parts == Split(file_path, "/")
    IN  Split(parts[Len(parts)], ".")[1]

\* Contains matching on the marker's last five characters only
ContainsSuffix(marker, file_name) ==
    \E i \in 0 .. (Len(file_name) - 5) :
        Slice(file_name, i, i + 5) = Slice(marker, Len(marker) - 5, Len(marker))

\* marker in file_name: marker occurs as a contiguous substring
Contains(marker, file_name) ==
    \E i \in 0 .. (Len(file_name) - Len(marker)) :
        Slice(file_name, i, i + Len(marker)) = marker

\* pd.read_csv(file_path, index_col="Date"): the table, one value per row.
\* Row i of a feature table is i, row i of a target table is 10 + i.
RowsOf(base, n) == [i \in 1 .. n |-> base + i]

read_csv(d, file_path) ==
    DataFrame(RowsOf(IF Head(FileName(file_path)) = "y" THEN 10 ELSE 0,
                     d[file_path]))

\* one iteration of the loop of _init_train_test_data
LoadFile(d, st, file_path) ==
    LET file_name == FileName(file_path)
        hit(marker) == Contains(Chars(marker), file_name)
        mark(f) == [k \in DOMAIN f \cup {file_name} |-> TRUE]
        s1 == IF hit("X_train")
              THEN [st EXCEPT !.X_train = read_csv(d, file_path), !.found = mark(@)]
              ELSE st
        s2 == IF hit("X_test")
              THEN [s1 EXCEPT !.X_test = read_csv(d, file_path), !.found = mark(@)]
              ELSE s1
        s3 == IF hit("y_train")
              THEN [s2 EXCEPT !.y_train = read_csv(d, file_path), !.found = mark(@)]
              ELSE s2
        s4 == IF hit("y_test")
              THEN [s3 EXCEPT !.y_test = read_csv(d, file_path), !.found = mark(@)]
              ELSE s3
    IN  s4

\* the loop over glob's result, in the order glob reports the files
RECURSIVE init_train_test_data(_, _, _)
init_train_test_data(d, st, files) ==
    IF files = <<>> THEN st
    ELSE init_train_test_data(d, LoadFile(d, st, Head(files)), Tail(files))

\* the orders in which glob may report the files of a directory
RECURSIVE Orders(_)
Orders(S) ==
    IF S = {} THEN {<<>>}
    ELSE UNION {{<<f>> \o o : o \in Orders(S \ {f})} : f \in S}

\* a table of the directory has one row or MaxRows rows
RowCounts == {1, MaxRows}

\* the directories holding the files named in Names, any subset of them
DirectoriesOf(Names) ==
    UNION {[{PathOf(s) : s \in S} -> RowCounts] : S \in SUBSET Names}

----------------------------------------------------------------------------

\* the state before any call; no dict has been handed to the helper
InitInstance ==
    /\ constructed = FALSE
    /\ dir = <<>>
    /\ X_train = None /\ X_test = None /\ y_train = None /\ y_test = None
    /\ X_train_normalized = None /\ X_test_normalized = None
    /\ X_train_unrolled = None /\ X_test_unrolled = None
    /\ y_train_unrolled = Unset /\ y_test_unrolled = Unset
    /\ model = None /\ scaler = None
    /\ train_test_init = <<>>
    /\ call = [op |-> "none"]
    /\ ret = Return(None)
    /\ effects = <<>>

Init == InitInstance /\ dictionar = Dict(<<>>)

\* NeuralManager(dir_path)
Construct(d) ==
    /\ ~constructed
    /\ \E files \in Orders(DOMAIN d) :
         LET st == init_train_test_data(d,
                       [X_train |-> None, X_test |-> None, y_train |-> None,
                        y_test |-> None, found |-> <<>>], files)
         IN  /\ dir' = d
             /\ X_train' = st.X_train /\ X_test' = st.X_test
             /\ y_train' = st.y_train /\ y_test' = st.y_test
             /\ train_test_init' = st.found
    /\ constructed' = TRUE
    /\ call' = [op |-> "__init__"]
    /\ ret' = Return(None)
    /\ effects' = <<>>
    /\ UNCHANGED <<X_train_normalized, X_test_normalized, X_train_unrolled,
                   X_test_unrolled, y_train_unrolled, y_test_unrolled,
                   model, scaler, dictionar>>

----------------------------------------------------------------------------
(* Normalizer *)

RECURSIVE Sum(_)
Sum(s) == IF s = <<>> THEN 0 ELSE Head(s) + Sum(Tail(s))

RECURSIVE MinOf(_)
MinOf(s) == IF Len(s) = 1 THEN s[1] ELSE Min(Head(s), MinOf(Tail(s)))

ScalerArgs == {"None", "MinMaxScaler"}

\* StandardScaler() if scaler is None else scaler(): a scaler not yet fitted
NewScaler(arg) ==
    [t |-> "scaler", cls |-> IF arg = "None" THEN "StandardScaler" ELSE arg,
     fitted |-> FALSE, a |-> 0, b |-> 0]

\* scaler.fit(rows).  StandardScaler centres on the mean of the fitted rows
\* (kept exact by scaling with the row count: x |-> n*x - sum); MinMaxScaler
\* moves the fitted minimum to zero (x |-> x - min).
Fit(sc, rows) ==
    IF sc.cls = "StandardScaler"
    THEN [sc EXCEPT !.fitted = TRUE, !.a = Len(rows), !.b = Sum(rows)]
    ELSE [sc EXCEPT !.fitted = TRUE, !.a = 1, !.b = MinOf(rows)]

\* scaler.transform(rows), with the parameters of the last fit
Transform(sc, rows) == Array([i \in 1 .. Len(rows) |-> sc.a * rows[i] - sc.b])

normalize_X(arg) ==
    /\ constructed
    /\ call' = [op |-> "normalize_X", scaler |-> arg]
    /\ effects' = <<>>
    /\ LET sc == NewScaler(arg)
       IN  IF X_train = None
           THEN \* fit_transform(None)
                /\ scaler' = sc
                /\ ret' = Raise("ValueError", 82)
                /\ UNCHANGED <<X_train_normalized, X_test_normalized>>
           ELSE LET fitted == Fit(sc, X_train.rows)
                IN  /\ scaler' = fitted
                    /\ X_train_normalized' = Transform(fitted, X_train.rows)
                    /\ IF X_test = None
                       THEN \* transform(None)
                            /\ ret' = Raise("ValueError", 83)
                            /\ UNCHANGED X_test_normalized
                       ELSE /\ X_test_normalized' = Transform(fitted, X_test.rows)
                            /\ ret' = Return(Bool(TRUE))
    /\ UNCHANGED <<constructed, dir, X_train, X_test, y_train, y_test,
                   X_train_unrolled, X_test_unrolled, y_train_unrolled,
                   y_test_unrolled, model, train_test_init, dictionar>>

----------------------------------------------------------------------------
(* Sequence windower *)

\* for index in range(len(X) - sequence_length): append X[index: index + L]
RECURSIVE Windows(_, _, _, _)
Windows(X, sequence_length, index, stop) ==
    IF index >= stop THEN <<>>
    ELSE <<Slice(X, index, index + sequence_length)>>
         \o Windows(X, sequence_length, index + 1, stop)

\* RangeStop taking in the window that ends on the last row
RangeStopInclusive(n, sequence_length) == n - sequence_length + 1

\* range(len(X) - sequence_length) stops before this index
RangeStop(n, sequence_length) == n - sequence_length

\* len(X) != len(y)
LenDiffer(X, y) == Len(X) # Len(y)

\* _unroll_array_to_sequence(X, y, sequence_length) on two arrays' rows
unroll_array_to_sequence(X, y, sequence_length) ==
    IF LenDiffer(X, y) THEN Bool(FALSE)
    ELSE LET stop == RangeStop(Len(X), sequence_length)
         IN  [t |-> "tuple",
              a |-> Array(Windows(X, sequence_length, 0, stop)),
              b |-> Array(Windows(y, sequence_length, 0, stop))]

SeqLens == 1 .. MaxSeqLen

\* the first statement of split_X_to_sequencees (lines 111-114), the result of
\* which the second statement (lines 116-119) continues from
SplitTrain(sequence_len) ==
    IF y_train = None THEN [ok |-> FALSE, ret |-> Raise("AttributeError", 113)]
    ELSE IF X_train_normalized = None
    THEN [ok |-> FALSE, ret |-> Raise("TypeError", 92)]
    ELSE LET r == unroll_array_to_sequence(X_train_normalized.rows,
                                          y_train.rows, sequence_len)
         IN  IF r.t = "tuple" THEN [ok |-> TRUE, a |-> r.a, b |-> r.b]
             ELSE \* unpacking False into two names
                  [ok |-> FALSE, ret |-> Raise("TypeError", 111)]

SplitTest(sequence_len) ==
    IF y_test = None THEN [ok |-> FALSE, ret |-> Raise("AttributeError", 118)]
    ELSE IF X_test_normalized = None
    THEN [ok |-> FALSE, ret |-> Raise("TypeError", 92)]
    ELSE LET r == unroll_array_to_sequence(X_test_normalized.rows,
                                          y_test.rows, sequence_len)
         IN  IF r.t = "tuple" THEN [ok |-> TRUE, a |-> r.a, b |-> r.b]
             ELSE [ok |-> FALSE, ret |-> Raise("TypeError", 116)]

split_X_to_sequencees(sequence_len) ==
    /\ constructed
    /\ call' = [op |-> "split_X_to_sequencees", sequence_len |-> sequence_len]
    /\ effects' = <<>>
    /\ LET tr == SplitTrain(sequence_len)
           te == SplitTest(sequence_len)
       IN  IF ~tr.ok
           THEN /\ ret' = tr.ret
                /\ UNCHANGED <<X_train_unrolled, y_train_unrolled,
                               X_test_unrolled, y_test_unrolled>>
           ELSE /\ X_train_unrolled' = tr.a
                /\ y_train_unrolled' = tr.b
                /\ IF ~te.ok
                   THEN /\ ret' = te.ret
                        /\ UNCHANGED <<X_test_unrolled, y_test_unrolled>>
                   ELSE /\ X_test_unrolled' = te.a
                        /\ y_test_unrolled' = te.b
                        /\ ret' = Return(None)
    /\ UNCHANGED <<constructed, dir, X_train, X_test, y_train, y_test,
                   X_train_normalized, X_test_normalized, model, scaler,
                   train_test_init, dictionar>>

----------------------------------------------------------------------------
(* Helpers: default merging *)

\* SetDefault written as dictionar.get(key) or val
SetDefaultIfFalsy(d, key, val) ==
    [k \in DOMAIN d \cup {key} |->
        IF k = key
        THEN (IF key \in DOMAIN d /\ d[key] \notin {None, Str("")}
              THEN d[key] ELSE val)
        ELSE d[k]]

\* dictionar[key] = dictionar[key] if key in dictionar else val
SetDefault(d, key, val) ==
    [k \in DOMAIN d \cup {key} |->
        IF k = key THEN (IF key \in DOMAIN d THEN d[key] ELSE val) ELSE d[k]]

\* for key in keys (a list): the default is None
RECURSIVE DefaultsFromList(_, _)
DefaultsFromList(d, keys) ==
    IF keys = <<>> THEN d
    ELSE DefaultsFromList(SetDefault(d, Head(keys), None), Tail(keys))

\* for key, val in keys.items() (a dict), the items left to visit being `left`
RECURSIVE DefaultsFromDict(_, _, _)
DefaultsFromDict(d, keys, left) ==
    IF left = {} THEN d
    ELSE LET key == CHOOSE k \in left : TRUE
         IN  DefaultsFromDict(SetDefault(d, key, keys[key]), keys, left \ {key})

\* _helpers_set_dict_default(dictionar, keys): the contents of dictionar after
helpers_set_dict_default(d, keys) ==
    LET d1 == IF keys.t = "list" THEN DefaultsFromList(d, keys.v) ELSE d
        d2 == IF keys.t = "dict" THEN DefaultsFromDict(d1, keys.d, DOMAIN keys.d)
              ELSE d1
    IN  d2

----------------------------------------------------------------------------
(* Model assembler *)

CompileKeys == {"optimizer", "loss", "metrics"}

\* dict(optimizer='adam', loss='rmse', metrics=['mae'])
compile_defaults ==
    Dict([k \in CompileKeys |->
            CASE k = "optimizer" -> Str("adam")
              [] k = "loss" -> Str("rmse")
              [] k = "metrics" -> List(<<"mae">>)])

\* what a caller may give for each key of compile_dict
CallerValue(k) ==
    CASE k = "optimizer" -> Str("sgd")
      [] k = "loss" -> Str("mse")
      [] k = "metrics" -> List(<<"mse">>)

Templates == {<<>>, <<"LSTM", "Dense">>}
CompileDicts ==
    {None} \cup {Dict([k \in S |-> CallerValue(k)]) : S \in SUBSET CompileKeys}
FullDict == Dict([k \in CompileKeys |-> CallerValue(k)])
MetricsArgs == {None, List(<<"mse">>)}

\* self.model = keras.Sequential(); for layer in template: self.model.add(layer)
RECURSIVE AddLayers(_, _)
AddLayers(m, template) ==
    IF template = <<>> THEN m
    ELSE AddLayers([m EXCEPT !.layers = Append(@, Head(template))],
                   Tail(template))

Sequential == [t |-> "Sequential", layers |-> <<>>, compiled |-> None]

\* lines 145-146: the local name metrics after the default
MetricsLocal(metrics) == IF metrics = None THEN List(<<"mae">>) ELSE metrics

\* lines 148-151: the local name compile_dict before self.model.compile
CompileDictLocal(compile_model, compile_dict, metrics) ==
    IF compile_model /\ compile_dict = None
    THEN Dict(helpers_set_dict_default(<<>>, compile_defaults))
    ELSE compile_dict

model_combine(template, compile_model, compile_dict, metrics, verbose) ==
    /\ constructed
    /\ call' = [op |-> "model_combine", compile_model |-> compile_model,
                compile_dict |-> compile_dict, metrics |-> metrics]
    /\ LET m == AddLayers(Sequential, template)
           cd == CompileDictLocal(compile_model, compile_dict,
                                  MetricsLocal(metrics))
           compile == [f |-> "model.compile", arg |-> cd]
       IN  IF cd = None
           THEN \* self.model.compile(**None)
                /\ model' = m
                /\ effects' = <<>>
                /\ ret' = Raise("TypeError", 154)
           ELSE \/ \* the library rejects the configuration
                   /\ model' = m
                   /\ effects' = <<compile>>
                   /\ ret' = Raise("LibraryError", 154)
                \/ /\ model' = [m EXCEPT !.compiled = cd]
                   /\ effects' = IF verbose
                                 THEN <<compile, [f |-> "model.summary", arg |-> None]>>
                                 ELSE <<compile>>
                   /\ ret' = Return(Bool(TRUE))
    /\ UNCHANGED <<constructed, dir, X_train, X_test, y_train, y_test,
                   X_train_normalized, X_test_normalized, X_train_unrolled,
                   X_test_unrolled, y_train_unrolled, y_test_unrolled,
                   scaler, train_test_init, dictionar>>

----------------------------------------------------------------------------
(* Training orchestrator and chart formatter *)

\* the names a method body can resolve besides its own locals and the
\* builtins: the module's imports (lines 7-12) and its one class (line 15)
ModuleGlobals ==
    {"keras", "pd", "np", "glob", "os", "plt", "StandardScaler",
     "MinMaxScaler", "RobustScaler", "NeuralManager"}

Resolves(name) == name \in ModuleGlobals

\* the default of an argument left None (lines 171-176)
OrDefault(arg, default) == IF arg = None THEN default ELSE arg.v

\* the window length of an unrolled array (0 windows: an array of shape (0,))
WindowLen(arr) == IF arr.rows = <<>> THEN 0 ELSE Len(arr.rows[1])

\* arr.reshape(arr.shape[0], n_seq, n_steps, n_features) keeps the size
ReshapeFits(arr, n_seq, n_steps) ==
    Len(arr.rows) * WindowLen(arr) = Len(arr.rows) * n_seq * n_steps

\* each window cut into n_seq pieces of n_steps rows
Reshape(arr, n_seq, n_steps) ==
    Array([w \in 1 .. Len(arr.rows) |->
             [q \in 1 .. n_seq |->
                SubSeq(arr.rows[w], (q - 1) * n_steps + 1, q * n_steps)]])

\* results.history of a run of n epochs, in units of 1e-4: the training loss
\* falls; the validation loss follows it or stays flat
Histories(n) ==
    LET loss == [i \in 1 .. n |-> 20000 - 1000 * i]
    IN  {[loss |-> loss, val_loss |-> [i \in 1 .. n |-> loss[i] + 2500]],
         [loss |-> loss, val_loss |-> [i \in 1 .. n |-> 21000]]}

\* f"{val:.4f}" of a value in units of 1e-4
Format4(val) == [whole |-> val \div 10000, frac |-> val % 10000]

\* _plt_label_Series: for i, val in enumerate(arr_of_labels): ax.text(...)
plt_label_Series(arr_of_labels, shift) ==
    [i \in 1 .. Len(arr_of_labels) |->
        [f |-> "ax.text",
         arg |-> [x |-> i - 1, y |-> arr_of_labels[i] + shift,
                  s |-> Format4(arr_of_labels[i])]]]

\* _helpers_plt_set_ax_properties: the calls it makes on ax, and how it ends
helpers_plt_set_ax_properties(ax_properties) ==
    LET general == <<[f |-> "ax.legend", arg |-> 3],
                     [f |-> "ax.spines.right.set_visible", arg |-> FALSE],
                     [f |-> "ax.spines.top.set_visible", arg |-> FALSE],
                     [f |-> "ax.grid", arg |-> TRUE]>>
    IN  IF ~Resolves("_plt_label_Series")
        THEN [calls |-> general, ret |-> Raise("NameError", 270)]
        ELSE [calls |-> general
                        \o plt_label_Series(ax_properties.label_series_base,
                                            ax_properties.shift)
                        \o <<[f |-> "ax.set_ylim", arg |-> ax_properties.y_lim],
                             [f |-> "ax.set_title", arg |-> ax_properties.ch_title],
                             [f |-> "ax.set_xlabel", arg |-> ax_properties.x_label],
                             [f |-> "ax.set_ylabel", arg |-> ax_properties.y_label]>>,
              ret |-> Return(None)]

\* lines 196-224: what model_fit does once self.model.fit has returned results
AfterFit(results, print_charts, use_tensorboard, return_results) ==
    LET chart == print_charts /\ ~use_tensorboard
        loss == results.loss
        val_loss == IF chart THEN Array(results.val_loss) ELSE Unset
        ax_properties == [ch_title |-> "Loss by Epoch\n", x_label |-> "epochs",
                          y_label |-> "Loss", x_lim |-> None, y_lim |-> None,
                          label_series_base |-> results.val_loss, shift |-> 5]
        plots == <<[f |-> "ax.plot", arg |-> [y |-> loss, label |-> "train_loss"]],
                   [f |-> "ax.plot",
                    arg |-> [y |-> results.val_loss, label |-> "test_loss"]]>>
        fmt == helpers_plt_set_ax_properties(ax_properties)
    IN  IF chart /\ fmt.ret.kind = "raise"
        THEN [calls |-> plots \o fmt.calls, ret |-> fmt.ret]
        ELSE [calls |-> IF chart THEN plots \o fmt.calls ELSE <<>>,
              ret |-> IF return_results
                      THEN (IF val_loss = Unset
                            THEN Raise("UnboundLocalError", 224)
                            ELSE Return(val_loss))
                      ELSE Return(None)]

\* self.model.fit can only return a history for a compiled model that has
\* layers, given training and validation arrays that are not empty
Trainable(m, x, x_val) ==
    /\ m.compiled # None
    /\ m.layers # <<>>
    /\ x.rows # <<>>
    /\ x_val.rows # <<>>

\* NoModel testing the training array instead of the model
NoTrainingArray == X_train_unrolled = None

\* self.model is None
NoModel == model = None

model_fit(n_epoch, n_seq, n_steps, print_charts, use_tensorboard, return_results) ==
    /\ constructed
    /\ call' = [op |-> "model_fit", print_charts |-> print_charts,
                use_tensorboard |-> use_tensorboard,
                return_results |-> return_results]
    /\ LET epochs == OrDefault(n_epoch, 10)
           seq == OrDefault(n_seq, 2)
           steps == OrDefault(n_steps, 2)
       IN  IF NoModel
           THEN ret' = Return(Bool(FALSE)) /\ effects' = <<>>
           ELSE IF X_train = None
           THEN ret' = Raise("AttributeError", 178) /\ effects' = <<>>
           ELSE IF y_train_unrolled = Unset
           THEN ret' = Raise("AttributeError", 181) /\ effects' = <<>>
           ELSE IF ~ReshapeFits(X_train_unrolled, seq, steps)
           THEN ret' = Raise("ValueError", 182) /\ effects' = <<>>
           ELSE IF y_test_unrolled = Unset
           THEN ret' = Raise("AttributeError", 185) /\ effects' = <<>>
           ELSE IF ~ReshapeFits(X_test_unrolled, seq, steps)
           THEN ret' = Raise("ValueError", 186) /\ effects' = <<>>
           ELSE LET fit(result) ==
                        [f |-> "model.fit",
                         arg |-> [x |-> Reshape(X_train_unrolled, seq, steps),
                                  y |-> y_train_unrolled,
                                  epochs |-> epochs, batch_size |-> 32,
                                  validation_data |->
                                     <<Reshape(X_test_unrolled, seq, steps),
                                       y_test_unrolled>>],
                         result |-> result]
                IN  IF model = None
                    THEN \* None has no fit
                         ret' = Raise("AttributeError", 188) /\ effects' = <<>>
                    ELSE IF ~Trainable(model, X_train_unrolled, X_test_unrolled)
                    THEN /\ ret' = Raise("LibraryError", 188)
                         /\ effects' = <<fit(None)>>
                    ELSE \/ \* the library fails the run
                            /\ ret' = Raise("LibraryError", 188)
                            /\ effects' = <<fit(None)>>
                         \/ \E results \in Histories(epochs) :
                              LET after == AfterFit(results, print_charts,
                                                    use_tensorboard, return_results)
                              IN  /\ ret' = after.ret
                                  /\ effects' = <<fit(results)>> \o after.calls
    /\ UNCHANGED <<constructed, dir, attrs, dictionar>>

----------------------------------------------------------------------------
(* The static methods, called on their own *)

\* the arrays given to _unroll_array_to_sequence: up to MaxLen rows, feature
\* rows 1, 2, ... and target rows 11, 12, ...
FeatureArrays == {RowsOf(0, n) : n \in 0 .. MaxLen}
TargetArrays == {RowsOf(10, n) : n \in 0 .. MaxLen}

Unroll(X, y, sequence_length) ==
    /\ call' = [op |-> "_unroll_array_to_sequence", X |-> X, y |-> y,
                sequence_length |-> sequence_length]
    /\ ret' = Return(unroll_array_to_sequence(X, y, sequence_length))
    /\ UNCHANGED <<constructed, dir, attrs, effects, dictionar>>

\* the values a configuration dict may hold under a key
DictValues == {None, Str(""), Str("sgd")}
DefaultValues == {None, Str("adam")}

PartialDicts ==
    {Dict(f) : f \in UNION {[S -> DictValues] : S \in SUBSET CompileKeys}}

\* keys: a dict of defaults, or a list of keys
DefaultSets ==
    {Dict(f) : f \in UNION {[S -> DefaultValues] : S \in SUBSET CompileKeys}}
    \cup {List(<<>>), List(<<"loss">>), List(<<"loss", "metrics", "loss">>)}

SetDictDefault(keys) ==
    /\ call' = [op |-> "_helpers_set_dict_default", keys |-> keys]
    /\ dictionar' = Dict(helpers_set_dict_default(dictionar.d, keys))
    /\ ret' = Return(None)
    /\ UNCHANGED <<constructed, dir, attrs, effects>>

----------------------------------------------------------------------------

\* what the calls of the lifecycle are given
FitArgs == {None, PyInt(1)}

\* The lifecycle of one instance: every method, in any order.
Next ==
    \/ \E d \in DirectoriesOf(Canonical) : Construct(d)
    \/ \E arg \in ScalerArgs : normalize_X(arg)
    \/ \E sequence_len \in SeqLens : split_X_to_sequencees(sequence_len)
    \/ \E template \in Templates, compile_model \in BOOLEAN,
          compile_dict \in {None, FullDict} :
            model_combine(template, compile_model, compile_dict, None, FALSE)
    \/ \E n_epoch \in FitArgs, n_seq \in FitArgs, n_steps \in FitArgs,
          print_charts \in BOOLEAN, use_tensorboard \in BOOLEAN,
          return_results \in BOOLEAN :
            model_fit(n_epoch, n_seq, n_steps, print_charts, use_tensorboard,
                      return_results)

Spec == Init /\ [][Next]_vars

\* The loader on directories that also hold a file matching no marker.
LoaderNext == \E d \in DirectoriesOf(Stems) : Construct(d)

LoaderSpec == Init /\ [][LoaderNext]_vars

\* The assembler with every configuration a caller may give.
AssemblerNext ==
    \/ \E d \in DirectoriesOf({"X_train", "y_train"}) : Construct(d)
    \/ \E template \in Templates, compile_model \in BOOLEAN,
          compile_dict \in CompileDicts, metrics \in MetricsArgs,
          verbose \in BOOLEAN :
            model_combine(template, compile_model, compile_dict, metrics, verbose)

AssemblerSpec == Init /\ [][AssemblerNext]_vars

\* The windowing function on arbitrary arrays.
UnrollNext ==
    \E X \in FeatureArrays, y \in TargetArrays, sequence_length \in 0 .. MaxLen :
        Unroll(X, y, sequence_length)

UnrollSpec == Init /\ [][UnrollNext]_vars

\* The default-merging helper on arbitrary dicts.
HelperInit == InitInstance /\ dictionar \in PartialDicts

HelperNext == \E keys \in DefaultSets : SetDictDefault(keys)

HelperSpec == HelperInit /\ [][HelperNext]_vars

----------------------------------------------------------------------------
(* Claims *)

\* the last call was _unroll_array_to_sequence on equal-length arrays with a
\* window shorter than the arrays
UnrolledEqualLength ==
    /\ call.op = "_unroll_array_to_sequence"
    /\ Len(call.X) = Len(call.y)
    /\ call.sequence_length < Len(call.X)

Mismatch(X, y) == X # None /\ y # None /\ Len(X.rows) # Len(y.rows)

\* a falsy value: None or False
Falsy(v) == v = None \/ v = Bool(FALSE)

\* C2: when the feature and target tables of the train split or of the test
\* split differ in row count, split_X_to_sequencees ends without a raised
\* fault, with a falsy result, and changes none of the four unrolled arrays.
C2_MismatchHandled ==
    [][(/\ call'.op = "split_X_to_sequencees"
        /\ \/ Mismatch(X_train_normalized, y_train)
           \/ Mismatch(X_test_normalized, y_test))
       => /\ ret'.kind = "return"
          /\ Falsy(ret'.val)
          /\ UNCHANGED <<X_train_unrolled, y_train_unrolled,
                         X_test_unrolled, y_test_unrolled>>]_vars

\* C3: with no model assembled, model_fit returns False, makes no collaborator
\* call (no fit, no reshape handed on, no plot) and changes no attribute,
\* whatever its arguments and whatever data has been loaded or windowed.
C3_NoModelFit ==
    [][(call'.op = "model_fit" /\ model = None)
       => /\ ret' = Return(Bool(FALSE))
          /\ effects' = <<>>
          /\ UNCHANGED attrs]_vars

C3_Witness ==
    /\ call.op = "model_fit"
    /\ model = None
    /\ ret = Return(Bool(FALSE))
    /\ X_train_unrolled # None /\ X_train_unrolled.rows # <<>>
    /\ y_test_unrolled # Unset

\* the last call was model_combine and it reached self.model.compile
Compiled ==
    /\ call.op = "model_combine"
    /\ effects # <<>>
    /\ effects[1].f = "model.compile"

\* C4: with compile_dict omitted, the configuration passed to compile has
\* optimizer 'adam', loss 'rmse', and metrics equal to the caller's metrics
\* list when one is given, ['mae'] when none is given.
C4_DefaultConfig ==
    (call.op = "model_combine" /\ call.compile_model /\ call.compile_dict = None)
    => /\ Compiled
       /\ effects[1].arg.d =
            [k \in CompileKeys |->
               CASE k = "optimizer" -> Str("adam")
                 [] k = "loss" -> Str("rmse")
                 [] k = "metrics" -> IF call.metrics = None
                                     THEN List(<<"mae">>) ELSE call.metrics]

\* C5: with a caller-supplied partial compile_dict, the configuration passed
\* to compile keeps every supplied key with its value and has every absent
\* key with its default ('adam', 'rmse', ['mae']).
C5_PartialMerged ==
    (call.op = "model_combine" /\ call.compile_dict # None)
    => /\ Compiled
       /\ effects[1].arg.d =
            [k \in CompileKeys |->
               IF k \in DOMAIN call.compile_dict.d
               THEN call.compile_dict.d[k] ELSE compile_defaults.d[k]]

\* the last call was model_fit and self.model.fit returned a training history
FitReturned ==
    /\ call.op = "model_fit"
    /\ effects # <<>>
    /\ effects[1].f = "model.fit"
    /\ effects[1].result # None

\* C6: model_fit with return_results set returns the history's validation
\* loss series, for every combination of print_charts and use_tensorboard.
C6_ReturnsValLoss ==
    (FitReturned /\ call.return_results)
    => ret = Return(Array(effects[1].result.val_loss))

\* the calls among `calls` made to the collaborator's function f
CallsTo(calls, f) == {i \in 1 .. Len(calls) : calls[i].f = f}

\* C7: with chart rendering requested, the chart step completes without a
\* fault: loss and val_loss are plotted, one label is placed per val_loss
\* point, and model_fit reaches its return.
C7_ChartCompletes ==
    (FitReturned /\ call.print_charts /\ ~call.use_tensorboard)
    => /\ ret.kind = "return"
       /\ Cardinality(CallsTo(effects, "ax.plot")) = 2
       /\ Cardinality(CallsTo(effects, "ax.text"))
            = Len(effects[1].result.val_loss)

\* the canonical files present in the directory
Present == {s \in Canonical : PathOf(s) \in DOMAIN dir}

\* the attribute is the table read from the file of that name, or None
LoadedIff(attr, stem) ==
    IF stem \in Present
    THEN attr # None /\ Len(attr.rows) = dir[PathOf(stem)]
    ELSE attr = None

\* C8: for every subset S of the four canonical files present, construction
\* does not raise, _train_test_init has exactly the keys of S, each True, and
\* a split table attribute is set iff its file is in S.
C8_LoaderState ==
    constructed =>
        /\ ret.kind = "return"
        /\ DOMAIN train_test_init = {Chars(s) : s \in Present}
        /\ \A k \in DOMAIN train_test_init : train_test_init[k] = TRUE
        /\ LoadedIff(X_train, "X_train") /\ LoadedIff(X_test, "X_test")
        /\ LoadedIff(y_train, "y_train") /\ LoadedIff(y_test, "y_test")

C8_Witness ==
    /\ constructed
    /\ Present = {"X_train", "y_test"}
    /\ PathOf("notes") \in DOMAIN dir
    /\ DOMAIN train_test_init = {Chars("X_train"), Chars("y_test")}
    /\ X_train # None /\ y_test # None /\ X_test = None /\ y_train = None

Max(a, b) == IF a > b THEN a ELSE b

\* every contiguous window of sequence_len rows of `rows`, in order
AllWindows(rows, sequence_len) ==
    [i \in 1 .. Max(Len(rows) - sequence_len + 1, 0) |->
        SubSeq(rows, i, i + sequence_len - 1)]

\* C9: split_X_to_sequencees produces every contiguous full-length window of
\* its input, the one ending on the last row included ([1,2,3,4,5] with
\* sequence_len 3 gives [1,2,3], [2,3,4], [3,4,5]).
C9_EveryWindow ==
    (call.op = "split_X_to_sequencees" /\ ret = Return(None))
    => /\ X_train_unrolled.rows
            = AllWindows(X_train_normalized.rows, call.sequence_len)
       /\ X_test_unrolled.rows
            = AllWindows(X_test_normalized.rows, call.sequence_len)

\* C10: _helpers_set_dict_default(D, K) with a dict K keeps every key of D
\* with its value (None and falsy values too), gives every key of K absent
\* from D the value K has for it, adds no other key, and a second call with
\* the same K changes nothing.
C10_DefaultMerge ==
    [][(call'.op = "_helpers_set_dict_default" /\ call'.keys.t = "dict")
       => LET D == dictionar.d
              K == call'.keys.d
              R == dictionar'.d
          IN  /\ DOMAIN R = DOMAIN D \cup DOMAIN K
              /\ \A k \in DOMAIN D : R[k] = D[k]
              /\ \A k \in DOMAIN K \ DOMAIN D : R[k] = K[k]
              /\ (call.op = "_helpers_set_dict_default" /\ call.keys = call'.keys)
                   => R = D]_vars

C10_Witness ==
    /\ call.op = "_helpers_set_dict_default"
    /\ call.keys.t = "dict"
    /\ DOMAIN call.keys.d = CompileKeys
    /\ DOMAIN dictionar.d = CompileKeys
    /\ dictionar.d["loss"] = None /\ call.keys.d["loss"] = Str("adam")
    /\ dictionar.d["optimizer"] = Str("") /\ call.keys.d["optimizer"] = Str("adam")
    /\ dictionar.d["metrics"] = Str("adam")
====
